---- MODULE Spec2Model ----
(***************************************************************************)
(* A model of word_vec-rs: the flat-array vector store (space.rs), the     *)
(* record math (vector.rs), the word2vec exporter (export.rs) and parser   *)
(* (parse.rs).                                                             *)
(*                                                                         *)
(* Data representation                                                     *)
(*   - a byte is a one-character string, a byte buffer a sequence of them; *)
(*   - a term is a sequence of bytes;                                      *)
(*   - an f32 is modelled by the integer number of tenths it denotes       *)
(*     (12 is 1.2, 20 is 2.0); the model's floats have at most one         *)
(*     fractional decimal digit, which Display prints exactly;             *)
(*   - indices are 0-based as in the source, sequences are 1-based.        *)
(***************************************************************************)
EXTENDS Integers, Sequences, FiniteSets, TLC

\* ---------------------------------------------------------------- bounds
MaxLen == 2          \* most records a store holds in the model
MaxDim == 2          \* largest record dimension in the model

Terms == {<<"a">>, <<"b">>}
Floats == {12, 20}   \* 1.2 and 2.0

Dims == 0..MaxDim
\* the records of the model: every vector of dimension 0, 1 or 2 over Floats;
\* a longer one repeats its first two components
Vectors ==
    UNION {{[data |-> [i \in 1..d |-> IF i % 2 = 1 THEN f1 ELSE f2], term |-> t] :
               f1 \in Floats, f2 \in Floats, t \in Terms} : d \in Dims}

\* the range s[start..end] of a slice (0-based, end exclusive)
slice(s, start, end) ==
    IF end <= start THEN <<>> ELSE [i \in 1..(end - start) |-> s[start + i]]
Min(x, y) == IF x <= y THEN x ELSE y

None == [is_some |-> FALSE]
Some(x) == [is_some |-> TRUE, val |-> x]

\* ------------------------------------------------------------- vector.rs
\* Vector::new
Vector(data, term) == [data |-> data, term |-> term]

\* Vector::dim
dim(vec) == Len(vec.data)

\* ------------------------------------------------------------- HashMap
EmptyMap == [t \in {} |-> 0]
MapInsert(m, k, v) == [x \in (DOMAIN m) \cup {k} |-> IF x = k THEN v ELSE m[x]]
MapGet(m, k) == IF k \in DOMAIN m THEN Some(m[k]) ELSE None

\* -------------------------------------------------------------- space.rs
\* VecSpace::new
New(dimension_) ==
    [vec_data |-> <<>>, words |-> <<>>, dimension |-> dimension_, term_map |-> None]

\* VecSpace::len
len(self) == Len(self.words)

\* VecSpace::is_empty
is_empty(self) == len(self) = 0

\* VecSpace::index_terms: the loop over words.iter().cloned().enumerate()
RECURSIVE index_terms_loop(_, _, _)
index_terms_loop(wordsSeq, pos, map) ==
    IF pos >= Len(wordsSeq) THEN map
    ELSE index_terms_loop(wordsSeq, pos + 1, MapInsert(map, wordsSeq[pos + 1], pos))

\* VecSpace::index_terms
index_terms(self) ==
    [self EXCEPT !.term_map = Some(index_terms_loop(self.words, 0, EmptyMap))]

\* VecSpace::with_termmap
with_termmap(self) ==
    LET s1 == [self EXCEPT !.term_map = Some(EmptyMap)]
    IN  IF ~is_empty(s1) THEN index_terms(s1) ELSE s1

\* insert with the term pushed before the dimension check
insert_push_first(self, vec) ==
    IF dim(vec) # self.dimension
    THEN [res |-> "Err", space |-> [self EXCEPT !.words = Append(self.words, vec.term)]]
    ELSE LET tm == IF self.term_map.is_some
                   THEN Some(MapInsert(self.term_map.val, vec.term, Len(self.words)))
                   ELSE self.term_map
         IN  [res |-> "Ok",
              space |-> [self EXCEPT !.term_map = tm,
                                     !.vec_data = self.vec_data \o vec.data,
                                     !.words = Append(self.words, vec.term)]]

\* insert that keeps an existing map entry (entry().or_insert) for a known term
insert_first_wins(self, vec) ==
    IF dim(vec) # self.dimension
    THEN [res |-> "Err", space |-> self]
    ELSE LET tm == IF self.term_map.is_some /\ vec.term \notin DOMAIN self.term_map.val
                   THEN Some(MapInsert(self.term_map.val, vec.term, Len(self.words)))
                   ELSE self.term_map
         IN  [res |-> "Ok",
              space |-> [self EXCEPT !.term_map = tm,
                                     !.vec_data = self.vec_data \o vec.data,
                                     !.words = Append(self.words, vec.term)]]

\* insert that adopts the record's dimension on an empty store of dimension 0
insert_deferred(self, vec) ==
    LET s0 == IF self.dimension = 0 /\ Len(self.words) = 0
              THEN [self EXCEPT !.dimension = dim(vec)] ELSE self
    IN  IF dim(vec) # s0.dimension
        THEN [res |-> "Err", space |-> s0]
        ELSE LET tm == IF s0.term_map.is_some
                       THEN Some(MapInsert(s0.term_map.val, vec.term, Len(s0.words)))
                       ELSE s0.term_map
             IN  [res |-> "Ok",
                  space |-> [s0 EXCEPT !.term_map = tm,
                                       !.vec_data = s0.vec_data \o vec.data,
                                       !.words = Append(s0.words, vec.term)]]

\* VecSpace::insert: the result and the store after the call
insert(self, vec) ==
    IF dim(vec) # self.dimension
    THEN [res |-> "Err", space |-> self]
    ELSE LET tm == IF self.term_map.is_some
                   THEN Some(MapInsert(self.term_map.val, vec.term, Len(self.words)))
                   ELSE self.term_map
         IN  [res |-> "Ok",
              space |-> [self EXCEPT !.term_map = tm,
                                     !.vec_data = self.vec_data \o vec.data,
                                     !.words = Append(self.words, vec.term)]]

\* get without the stride: the offset is pos instead of pos * dimension
get_no_stride(self, pos) ==
    LET vec_idx == pos
    IN  IF pos >= Len(self.words) THEN None
        ELSE IF vec_idx + self.dimension > Len(self.vec_data) THEN None
        ELSE Some(Vector(slice(self.vec_data, vec_idx, vec_idx + self.dimension),
                         self.words[pos + 1]))

\* VecSpace::get
get(self, pos) ==
    LET vec_idx == pos * self.dimension
    IN  IF pos >= Len(self.words) THEN None
        ELSE IF vec_idx + self.dimension > Len(self.vec_data) THEN None
        ELSE Some(Vector(slice(self.vec_data, vec_idx, vec_idx + self.dimension),
                         self.words[pos + 1]))

\* VecSpace::find_term_idx
find_term_idx(self, term) ==
    IF ~self.term_map.is_some THEN None ELSE MapGet(self.term_map.val, term)

\* VecSpace::find_term
find_term(self, term) ==
    LET idx == find_term_idx(self, term)
    IN  IF ~idx.is_some THEN None ELSE get(self, idx.val)

\* clear that forgets the float buffer: only words and the map are emptied
clear_keep_data(self) ==
    [self EXCEPT !.words = <<>>,
                 !.term_map = IF self.term_map.is_some THEN Some(EmptyMap)
                              ELSE self.term_map]

\* VecSpace::clear
clear(self) ==
    [self EXCEPT !.vec_data = <<>>, !.words = <<>>,
                 !.term_map = IF self.term_map.is_some THEN Some(EmptyMap)
                              ELSE self.term_map]

\* Extend for VecSpace: inserts in order, panics at the first rejected record
RECURSIVE extend(_, _)
extend(self, iter) ==
    IF iter = <<>> THEN [res |-> "Ok", space |-> self]
    ELSE LET r == insert(self, Head(iter))
         IN  IF r.res = "Err" THEN [res |-> "Panic", space |-> r.space]
             ELSE extend(r.space, Tail(iter))

\* VecSpaceIter: the records get(0), get(1), ... up to the first None
RECURSIVE iter_from(_, _)
iter_from(self, pos) ==
    LET v == get(self, pos)
    IN  IF ~v.is_some THEN <<>> ELSE <<v.val>> \o iter_from(self, pos + 1)

\* VecSpace::iter
iter(self) == iter_from(self, 0)

\* ------------------------------------------------- text <-> number codecs
SP == " "
NL == "\n"
DigitChars == <<"0", "1", "2", "3", "4", "5", "6", "7", "8", "9">>
IsDigit(c) == \E i \in 1..10 : DigitChars[i] = c
DigitVal(c) == (CHOOSE i \in 1..10 : DigitChars[i] = c) - 1
AllDigits(s) == \A i \in 1..Len(s) : IsDigit(s[i])

\* usize::to_string
RECURSIVE usize_to_string(_)
usize_to_string(n) ==
    IF n < 10 THEN <<DigitChars[n + 1]>>
    ELSE usize_to_string(n \div 10) \o <<DigitChars[(n % 10) + 1]>>

\* value of a string of decimal digits
RECURSIVE digits_value(_)
digits_value(s) ==
    IF s = <<>> THEN 0
    ELSE 10 * digits_value(slice(s, 0, Len(s) - 1)) + DigitVal(s[Len(s)])

\* str::parse::<usize>: an optional '+', then one or more digits
parse_usize(s) ==
    LET body == IF s # <<>> /\ s[1] = "+" THEN Tail(s) ELSE s
    IN  IF body # <<>> /\ AllDigits(body)
        THEN [res |-> "Ok", val |-> digits_value(body)]
        ELSE [res |-> "Err"]

\* f32::to_string (Display): the shortest decimal that reads back as the value;
\* no trailing ".0", no exponent
f32_to_string(v) ==
    LET a == IF v < 0 THEN 0 - v ELSE v
    IN  (IF v < 0 THEN <<"-">> ELSE <<>>)
        \o usize_to_string(a \div 10)
        \o (IF a % 10 = 0 THEN <<>> ELSE <<".", DigitChars[(a % 10) + 1]>>)

\* position (0-based) of the first occurrence of c in s, Len(s) when absent
RECURSIVE find_from(_, _, _)
find_from(s, c, pos) ==
    IF pos >= Len(s) THEN Len(s)
    ELSE IF s[pos + 1] = c THEN pos
    ELSE find_from(s, c, pos + 1)

\* str::parse::<f32>: optional sign, digits with an optional '.', at least one
\* digit. Tokens of the model carry at most one fractional digit.
parse_f32(s) ==
    LET signed == s # <<>> /\ s[1] \in {"+", "-"}
        body == IF signed THEN Tail(s) ELSE s
        dot == find_from(body, ".", 0)
        ip == slice(body, 0, dot)
        fp == slice(body, dot + 1, Len(body))
        mag == 10 * digits_value(ip) + (IF fp = <<>> THEN 0 ELSE DigitVal(fp[1]))
    IN  IF AllDigits(ip) /\ AllDigits(fp) /\ Len(ip) + Len(fp) > 0
        THEN [res |-> "Ok", val |-> IF signed /\ s[1] = "-" THEN 0 - mag ELSE mag]
        ELSE [res |-> "Err"]

\* f32::to_le_bytes: the IEEE-754 bytes of 1.2 (0x3F99999A) and 2.0 (0x40000000)
to_le_bytes(v) ==
    CASE v = 12 -> <<"x9A", "x99", "x99", "x3F">>
      [] v = 20 -> <<"x00", "x00", "x00", "x40">>
      [] OTHER  -> <<"x??", "x??", "x??", "x??">>

\* str::split(sep): the pieces between separators; one empty piece for ""
RECURSIVE split(_, _)
split(s, sep) ==
    LET p == find_from(s, sep, 0)
    IN  IF p >= Len(s) THEN <<s>>
        ELSE <<slice(s, 0, p)>> \o split(slice(s, p + 1, Len(s)), sep)

\* str::trim
IsWhite(c) == c \in {SP, NL}
RECURSIVE trim(_)
trim(s) ==
    IF s = <<>> THEN s
    ELSE IF IsWhite(s[1]) THEN trim(Tail(s))
    ELSE IF IsWhite(s[Len(s)]) THEN trim(slice(s, 0, Len(s) - 1))
    ELSE s

\* ------------------------------------------------------------- export.rs
DEFAULT_TERM_SEP == SP
DEFAULT_VEC_SEP == SP

\* Exporter::new
Exporter(w) ==
    [term_separator |-> DEFAULT_TERM_SEP, vec_separator |-> DEFAULT_VEC_SEP,
     binary |-> FALSE, writer |-> w, header_written |-> FALSE]

\* Exporter::use_binary
use_binary(self) == [self EXCEPT !.binary = TRUE]

\* Write::write on the Vec<u8> writer: appends all of buf, returns its length
write(self, buf) == [self EXCEPT !.writer = self.writer \o buf]

\* write_header writing its two parameters in the opposite order
write_header_swapped(self, dim_, len_) ==
    LET s0 == [self EXCEPT !.header_written = TRUE]
        b1 == usize_to_string(len_)
        b2 == <<SP>>
        b3 == usize_to_string(dim_)
    IN  [n |-> Len(b1) + Len(b2) + Len(b3),
         self |-> write(write(write(s0, b1), b2), b3)]

\* Exporter::write_header: writes its first parameter, a space, its second
write_header(self, dim_, len_) ==
    LET s0 == [self EXCEPT !.header_written = TRUE]
        b1 == usize_to_string(dim_)
        b2 == <<SP>>
        b3 == usize_to_string(len_)
    IN  [n |-> Len(b1) + Len(b2) + Len(b3),
         self |-> write(write(write(s0, b1), b2), b3)]

\* Exporter::write_vector_bin, the loop over vec.data(): bytes written, not counted
RECURSIVE write_floats_bin(_, _)
write_floats_bin(self, data) ==
    IF data = <<>> THEN self
    ELSE write_floats_bin(write(self, to_le_bytes(Head(data))), Tail(data))

\* Exporter::write_vector_bin
write_vector_bin(self, vec) ==
    LET s1 == write(self, vec.term)
        s2 == write(s1, <<SP>>)
    IN  [n |-> Len(vec.term) + 1, self |-> write_floats_bin(s2, vec.data)]

\* Exporter::write_vector_txt, the loop over vec.data().iter().enumerate()
RECURSIVE write_floats_txt(_, _, _)
write_floats_txt(acc, data, pos) ==
    IF pos >= Len(data) THEN acc
    ELSE LET sepb == IF pos > 0 THEN <<acc.self.vec_separator>> ELSE <<>>
             vb == f32_to_string(data[pos + 1])
         IN  write_floats_txt([n |-> acc.n + Len(sepb) + Len(vb),
                               self |-> write(write(acc.self, sepb), vb)],
                              data, pos + 1)

\* Exporter::write_vector_txt
write_vector_txt(self, vec) ==
    LET s1 == write(self, <<NL>>)
        s2 == write(s1, vec.term)
        s3 == write(s2, <<self.term_separator>>)
    IN  write_floats_txt([n |-> 1 + Len(vec.term) + 1, self |-> s3], vec.data, 0)

\* Exporter::write_vector
write_vector(self, vec) ==
    IF self.binary THEN write_vector_bin(self, vec) ELSE write_vector_txt(self, vec)

\* Exporter::export_vectors, the loop over the iterator
RECURSIVE export_vectors_loop(_, _)
export_vectors_loop(acc, vecs) ==
    IF vecs = <<>> THEN acc
    ELSE LET r == write_vector(acc.self, Head(vecs))
         IN  export_vectors_loop([n |-> acc.n + r.n, self |-> r.self], Tail(vecs))

\* export_vectors without the header_written check
export_vectors_unchecked(self, vecs) ==
    LET r == export_vectors_loop([n |-> 0, self |-> self], vecs)
    IN  [res |-> "Ok", n |-> r.n, self |-> r.self]

\* Exporter::export_vectors
export_vectors(self, vecs) ==
    IF ~self.header_written THEN [res |-> "Panic", n |-> 0, self |-> self]
    ELSE LET r == export_vectors_loop([n |-> 0, self |-> self], vecs)
         IN  [res |-> "Ok", n |-> r.n, self |-> r.self]

\* the predicates handed to export_space_filtered
Filters == {"all", "term_a", "none"}
Accept(filter, vec) ==
    CASE filter = "all" -> TRUE
      [] filter = "term_a" -> vec.term = <<"a">>
      [] OTHER -> FALSE

\* Exporter::export_space_filtered
export_space_filtered(self, space, filter) ==
    LET len_ == len(space)
        dim_ == space.dimension
        h == write_header(self, len_, dim_)
        s1 == IF h.self.binary THEN write(h.self, <<NL>>) ELSE h.self
        n1 == h.n + (IF h.self.binary THEN 1 ELSE 0)
        e == export_vectors(s1, SelectSeq(iter(space), LAMBDA v : Accept(filter, v)))
    IN  [res |-> e.res, n |-> n1 + e.n, self |-> e.self]

\* Exporter::export_space
export_space(self, space) == export_space_filtered(self, space, "all")

\* -------------------------------------------------------------- parse.rs
\* Word2VecParser::default
Word2VecParser ==
    [parse_header |-> TRUE, term_separator |-> SP, vec_separator |-> SP,
     index_terms |-> FALSE, binary |-> FALSE]

\* Word2VecParser::binary
binary(self) == [self EXCEPT !.binary = TRUE]

\* Word2VecParser::no_header
no_header(self) == [self EXCEPT !.parse_header = FALSE]

\* Word2VecParser::index_terms
set_index_terms(self, index) == [self EXCEPT !.index_terms = index]

\* BufRead::read_until(b'\n'): the bytes up to and including the first line break
read_until(bytes) == slice(bytes, 0, Min(find_from(bytes, NL, 0) + 1, Len(bytes)))
after_line(bytes) == slice(bytes, Min(find_from(bytes, NL, 0) + 1, Len(bytes)), Len(bytes))

\* Word2VecParser::parse_vec_txt, the loop pushing the parsed tokens
RECURSIVE parse_tokens(_, _)
parse_tokens(tokens, buf) ==
    IF tokens = <<>> THEN [res |-> "Ok", buf |-> buf]
    ELSE LET f == parse_f32(Head(tokens))
         IN  IF f.res = "Err" THEN [res |-> "Err"]
             ELSE parse_tokens(Tail(tokens), Append(buf, f.val))

\* Word2VecParser::parse_vec_txt
parse_vec_txt(self, line) ==
    LET term_vec_split == find_from(line, self.term_separator, 0)
    IN  IF term_vec_split >= Len(line) THEN [res |-> "Err"]
        \* line[term_vec_split + 1..line.len() - 1] with start > end panics
        ELSE IF term_vec_split + 1 > Len(line) - 1 THEN [res |-> "Panic"]
        ELSE LET body == slice(line, term_vec_split + 1, Len(line) - 1)
                 t == parse_tokens(split(body, self.vec_separator), <<>>)
             IN  IF t.res = "Err" THEN [res |-> "Err"]
                 ELSE [res |-> "Ok",
                       vec |-> Vector(t.buf, slice(line, 0, term_vec_split))]

\* Word2VecParser::parse_vec_bin: finds the space, then todo!()
parse_vec_bin(self, line) ==
    IF find_from(line, SP, 0) >= Len(line) THEN [res |-> "Err"] ELSE [res |-> "Panic"]

\* Word2VecParser::parse_vec
parse_vec(self, line) ==
    IF self.binary THEN parse_vec_bin(self, line) ELSE parse_vec_txt(self, line)

\* Word2VecParser::parse_header_txt
parse_header_txt(self, line) ==
    LET sp == split(line, SP)
        count == parse_usize(sp[1])
    IN  IF count.res = "Err" THEN [res |-> "Err"]
        ELSE IF Len(sp) < 2 THEN [res |-> "Panic"]
        ELSE LET d == parse_usize(sp[2])
             IN  IF d.res = "Err" THEN [res |-> "Err"]
                 ELSE [res |-> "Ok", count |-> count.val, dim |-> d.val]

\* Word2VecParser::parse_header_bin: todo!()
parse_header_bin(self, line) == [res |-> "Panic"]

\* Word2VecParser::parse_header
parse_header(self, line) ==
    IF self.binary THEN parse_header_bin(self, line)
    ELSE parse_header_txt(self, trim(line))

\* Word2VecParser::parse, the loop over the lines of the reader
RECURSIVE parse_loop(_, _, _, _)
parse_loop(self, rest, space, parsed_header) ==
    IF rest = <<>>
    THEN IF ~parsed_header THEN [res |-> "Err"] ELSE [res |-> "Ok", space |-> space]
    ELSE LET line_buf == read_until(rest)
             next == after_line(rest)
         IN  IF ~parsed_header
             THEN IF self.parse_header
                  THEN LET h == parse_header(self, line_buf)
                       IN  IF h.res # "Ok" THEN [res |-> h.res]
                           ELSE LET s0 == New(h.dim)
                                    s1 == IF self.index_terms THEN with_termmap(s0)
                                          ELSE s0
                                IN  parse_loop(self, next, s1, TRUE)
                  ELSE LET first_vec == parse_vec(self, line_buf)
                       IN  IF first_vec.res # "Ok" THEN [res |-> first_vec.res]
                           ELSE LET i0 == insert(New(dim(first_vec.vec)), first_vec.vec)
                                    s1 == IF self.index_terms THEN with_termmap(i0.space)
                                          ELSE i0.space
                                IN  IF i0.res = "Err" THEN [res |-> "Err"]
                                    ELSE parse_loop(self, next, s1, TRUE)
             \* space.insert(&self.parse_vec(..).unwrap())?
             ELSE LET v == parse_vec(self, line_buf)
                  IN  IF v.res # "Ok" THEN [res |-> "Panic"]
                      ELSE LET i1 == insert(space, v.vec)
                           IN  IF i1.res = "Err" THEN [res |-> "Err"]
                               ELSE parse_loop(self, next, i1.space, TRUE)

\* Word2VecParser::parse
parse(self, reader) == parse_loop(self, reader, New(0), FALSE)

\* ------------------------------------------------ vector.rs: record math
\* Vector::dot: zip stops at the shorter operand; the sum is in hundredths
RECURSIVE dot_zip(_, _, _)
dot_zip(a, b, i) ==
    IF i > Len(a) \/ i > Len(b) THEN 0
    ELSE a[i] * b[i] + dot_zip(a, b, i + 1)

\* Vector::dot
dot(self, other) == [res |-> "Ok", val |-> dot_zip(self.data, other.data, 1)]

\* Vector::length, squared (the sum under the square root), in hundredths
length_sq(self) == dot_zip(self.data, self.data, 1)

\* Vector::cosine: 0 for a zero dot product or a zero divisor, else the quotient
\* dot / sqrt(den_sq), kept as numerator and squared denominator
cosine(self, other) ==
    LET d == dot(self, other)
        div_sq == length_sq(self) * length_sq(other)
    IN  IF d.res # "Ok" THEN [res |-> d.res]
        ELSE IF d.val = 0 THEN [res |-> "Ok", val |-> [num |-> 0, den_sq |-> 1]]
        ELSE IF div_sq = 0 THEN [res |-> "Ok", val |-> [num |-> 0, den_sq |-> 1]]
        ELSE [res |-> "Ok", val |-> [num |-> d.val, den_sq |-> div_sq]]

\* Add for Vector: assert_eq!(self.dim(), rhs.dim()), then the elementwise sum
add(self, rhs) ==
    IF dim(self) # dim(rhs) THEN [res |-> "Panic"]
    ELSE [res |-> "Ok",
          vec |-> Vector([i \in 1..dim(self) |-> self.data[i] + rhs.data[i]],
                         self.term \o <<SP>> \o rhs.term)]

\* ------------------------------------------------------------------ state
VARIABLES
    vec_data,    \* VecSpace.vec_data
    words,       \* VecSpace.words
    dimension,   \* VecSpace.dimension
    term_map,    \* VecSpace.term_map
    new_dim,     \* history: the dimension the store was constructed with
    inserted,    \* history: the records accepted since construction or clear
    last,        \* the last call made and what it returned
    pc,          \* "store", "ready" (bytes to parse), "parsed", "input", "math",
                 \* "exporting" (calls on one Exporter), "exported"
    exporter,    \* the Exporter, its writer included
    reader,      \* the bytes handed to Word2VecParser::parse
    parser,      \* the Word2VecParser configuration
    parsed       \* what Word2VecParser::parse returned

vars == <<vec_data, words, dimension, term_map, new_dim, inserted, last, pc,
          exporter, reader, parser, parsed>>
spaceVars == <<vec_data, words, dimension, term_map>>
codecVars == <<exporter, reader, parser, parsed>>

\* the VecSpace held by the state
Self ==
    [vec_data |-> vec_data, words |-> words, dimension |-> dimension,
     term_map |-> term_map]

SetSelf(s) ==
    /\ vec_data' = s.vec_data
    /\ words' = s.words
    /\ dimension' = s.dimension
    /\ term_map' = s.term_map

NoCall == [op |-> "new"]

\* VecSpace::new(d), an unused Exporter over an empty buffer, a default parser
Init ==
    /\ \E d \in Dims : /\ vec_data = New(d).vec_data
                       /\ words = New(d).words
                       /\ dimension = New(d).dimension
                       /\ term_map = New(d).term_map
                       /\ new_dim = d
    /\ inserted = <<>>
    /\ last = NoCall
    /\ pc = "store"
    /\ exporter = Exporter(<<>>)
    /\ reader = <<>>
    /\ parser = Word2VecParser
    /\ parsed = None

\* ------------------------------------------------------- store operations
\* space.insert(vec)
Insert(vec) ==
    /\ pc = "store"
    /\ LET r == insert(Self, vec)
       IN  /\ r.res = "Ok" => len(Self) < MaxLen
           /\ SetSelf(r.space)
           /\ inserted' = IF r.res = "Ok" THEN Append(inserted, vec) ELSE inserted
           /\ last' = [op |-> "insert", vec |-> vec, res |-> r.res]
    /\ UNCHANGED <<new_dim, pc, codecVars>>

\* space.extend([v1, v2])
Extend(v1, v2) ==
    /\ pc = "store"
    /\ len(Self) + 2 <= MaxLen
    /\ LET r == extend(Self, <<v1, v2>>)
       IN  /\ SetSelf(r.space)
           /\ inserted' = inserted \o slice(<<v1, v2>>, 0, len(r.space) - len(Self))
           /\ last' = [op |-> "extend", res |-> r.res]
    /\ UNCHANGED <<new_dim, pc, codecVars>>

\* space.clear()
Clear ==
    /\ pc = "store"
    /\ SetSelf(clear(Self))
    /\ inserted' = <<>>
    /\ last' = [op |-> "clear"]
    /\ UNCHANGED <<new_dim, pc, codecVars>>

\* space = space.with_termmap()
WithTermmap ==
    /\ pc = "store"
    /\ SetSelf(with_termmap(Self))
    /\ last' = [op |-> "with_termmap"]
    /\ UNCHANGED <<new_dim, inserted, pc, codecVars>>

\* space.reserve(additional), space.shrink_to_fit(): capacity only
Reserve ==
    /\ pc = "store"
    /\ last' = [op |-> "reserve"]
    /\ UNCHANGED <<spaceVars, new_dim, inserted, pc, codecVars>>

ShrinkToFit ==
    /\ pc = "store"
    /\ last' = [op |-> "shrink_to_fit"]
    /\ UNCHANGED <<spaceVars, new_dim, inserted, pc, codecVars>>

\* space.get(pos)
Get(pos) ==
    /\ pc = "store"
    /\ last' = [op |-> "get", pos |-> pos, res |-> get(Self, pos)]
    /\ UNCHANGED <<spaceVars, new_dim, inserted, pc, codecVars>>

\* space.find_term(term)
FindTerm(term) ==
    /\ pc = "store"
    /\ last' = [op |-> "find_term", term |-> term, res |-> find_term(Self, term)]
    /\ UNCHANGED <<spaceVars, new_dim, inserted, pc, codecVars>>

\* ------------------------------------------------------------ the codec
\* Exporter::new(&mut buf)[.use_binary()].export_space_filtered(&space, filter)
Export(bin, filter) ==
    /\ pc = "store"
    /\ LET e0 == IF bin THEN use_binary(Exporter(<<>>)) ELSE Exporter(<<>>)
           r == export_space_filtered(e0, Self, filter)
       IN  /\ exporter' = r.self
           /\ reader' = r.self.writer
           /\ last' = [op |-> "export", filter |-> filter, res |-> r.res, n |-> r.n]
    /\ pc' = "ready"
    /\ UNCHANGED <<spaceVars, new_dim, inserted, parser, parsed>>

\* the parser of the export tests: Word2VecParser::new(), .binary() for binary
MatchingParser(exp) == IF exp.binary THEN binary(Word2VecParser) ELSE Word2VecParser

\* Word2VecParser::new()[.binary()].parse(Cursor::new(&buf))
ParseExported ==
    /\ pc = "ready"
    /\ parser' = MatchingParser(exporter)
    /\ parsed' = parse(MatchingParser(exporter), reader)
    /\ pc' = "parsed"
    /\ UNCHANGED <<spaceVars, new_dim, inserted, last, exporter, reader>>

Next ==
    \/ \E vec \in Vectors : Insert(vec)
    \/ \E v1, v2 \in Vectors : Extend(v1, v2)
    \/ Clear
    \/ WithTermmap
    \/ Reserve
    \/ ShrinkToFit
    \/ \E pos \in 0..MaxLen : Get(pos)
    \/ \E term \in Terms : FindTerm(term)
    \/ \E bin \in BOOLEAN, filter \in Filters : Export(bin, filter)
    \/ ParseExported

Spec == Init /\ [][Next]_vars

\* ------------------------------------------- parsing hand-written input
MaxRecLines == 2     \* most record lines of a hand-written input

HeaderLines ==
    {<<"2", SP, "1", NL>>, <<"2", NL>>, <<"x", SP, "1", NL>>}
RecordLines ==
    {<<"a", SP, "1", ".", "2", NL>>, <<"b", SP, "2", NL>>, <<"a", NL>>,
     <<"a", SP, "x", NL>>, <<"a", SP, "2", SP, "2", NL>>}

RECURSIVE Concat(_)
Concat(ls) == IF ls = <<>> THEN <<>> ELSE Head(ls) \o Concat(Tail(ls))

Inputs ==
    {h \o Concat(rs) : h \in HeaderLines,
                       rs \in UNION {[1..k -> RecordLines] : k \in 0..MaxRecLines}}

\* a reader holding hand-written bytes, a parser still to be configured
InitParse ==
    /\ vec_data = New(0).vec_data
    /\ words = New(0).words
    /\ dimension = New(0).dimension
    /\ term_map = New(0).term_map
    /\ new_dim = 0
    /\ inserted = <<>>
    /\ last = NoCall
    /\ pc = "input"
    /\ exporter = Exporter(<<>>)
    /\ reader \in Inputs
    /\ parser = Word2VecParser
    /\ parsed = None

\* parser = parser.binary()
ParserBinary ==
    /\ pc = "input"
    /\ ~parser.binary
    /\ parser' = binary(parser)
    /\ UNCHANGED <<spaceVars, new_dim, inserted, last, pc, exporter, reader, parsed>>

\* parser = parser.no_header()
ParserNoHeader ==
    /\ pc = "input"
    /\ parser.parse_header
    /\ parser' = no_header(parser)
    /\ UNCHANGED <<spaceVars, new_dim, inserted, last, pc, exporter, reader, parsed>>

\* parser = parser.index_terms(true)
ParserIndexTerms ==
    /\ pc = "input"
    /\ ~parser.index_terms
    /\ parser' = set_index_terms(parser, TRUE)
    /\ UNCHANGED <<spaceVars, new_dim, inserted, last, pc, exporter, reader, parsed>>

\* parser.parse(Cursor::new(&bytes))
ParseInput ==
    /\ pc = "input"
    /\ parsed' = parse(parser, reader)
    /\ pc' = "parsed_input"
    /\ UNCHANGED <<spaceVars, new_dim, inserted, last, exporter, reader, parser>>

NextParse ==
    \/ ParserBinary
    \/ ParserNoHeader
    \/ ParserIndexTerms
    \/ ParseInput

SpecParse == InitParse /\ [][NextParse]_vars

\* ------------------------------------------------------ record math calls
InitMath ==
    /\ vec_data = New(0).vec_data
    /\ words = New(0).words
    /\ dimension = New(0).dimension
    /\ term_map = New(0).term_map
    /\ new_dim = 0
    /\ inserted = <<>>
    /\ last = NoCall
    /\ pc = "math"
    /\ exporter = Exporter(<<>>)
    /\ reader = <<>>
    /\ parser = Word2VecParser
    /\ parsed = None

\* a.dot(&b)
Dot(a, b) ==
    /\ pc = "math"
    /\ last' = [op |-> "dot", a |-> a, b |-> b, ret |-> dot(a, b)]
    /\ UNCHANGED <<spaceVars, new_dim, inserted, pc, codecVars>>

\* a.cosine(&b)
Cosine(a, b) ==
    /\ pc = "math"
    /\ last' = [op |-> "cosine", a |-> a, b |-> b, ret |-> cosine(a, b)]
    /\ UNCHANGED <<spaceVars, new_dim, inserted, pc, codecVars>>

\* a + b
Add(a, b) ==
    /\ pc = "math"
    /\ last' = [op |-> "add", a |-> a, b |-> b, ret |-> add(a, b)]
    /\ UNCHANGED <<spaceVars, new_dim, inserted, pc, codecVars>>

NextMath ==
    \/ \E a, b \in Vectors : Dot(a, b)
    \/ \E a, b \in Vectors : Cosine(a, b)
    \/ \E a, b \in Vectors : Add(a, b)

SpecMath == InitMath /\ [][NextMath]_vars

\* ===================================================================
\* Properties
\* ===================================================================
TermsOf(ws) == {ws[i] : i \in 1..Len(ws)}
LastIndexOf(ws, t) == CHOOSE i \in 0..(Len(ws) - 1) :
    /\ ws[i + 1] = t
    /\ \A j \in 0..(Len(ws) - 1) : ws[j + 1] = t => j <= i

\* an export of the whole store with the default (text) exporter, parsed back;
\* the store has dimension >= 1, so that every record carries value tokens
TextRoundTripDone ==
    /\ pc = "parsed" /\ last.op = "export" /\ last.filter = "all"
    /\ ~exporter.binary /\ ~term_map.is_some
    /\ dimension >= 1

\* an export of the whole store with the binary exporter, parsed back
BinRoundTripDone ==
    /\ pc = "parsed" /\ last.op = "export" /\ last.filter = "all"
    /\ exporter.binary /\ ~term_map.is_some

\* C1: text round trip. Parsing the text export of a store without a term map
\* returns Ok with a store equal to the exported one, last record included.
C1_TextRoundTrip ==
    TextRoundTripDone => (parsed.res = "Ok" /\ parsed.space = Self)

\* C2: binary round trip. Parsing the binary export of a store without a term
\* map with the binary parser returns Ok with a store equal to the exported one.
C2_BinaryRoundTrip ==
    BinRoundTripDone => (parsed.res = "Ok" /\ parsed.space = Self)

\* C3: dimension guard. An insert of a record whose dimension differs from the
\* store's returns Err and leaves vec_data, words, dimension and term_map as
\* they were before the call.
C3_DimensionGuard ==
    [][(last'.op = "insert" /\ dim(last'.vec) # dimension)
          => (last'.res = "Err" /\ UNCHANGED spaceVars)]_vars

\* a rejected insert on a store that holds records and a term map
C3_Witness ==
    /\ last.op = "insert" /\ last.res = "Err"
    /\ dim(last.vec) # dimension
    /\ Len(words) > 0 /\ term_map.is_some

\* C4: index consistency. Whenever the term map is enabled, its keys are the
\* terms of words, each key maps to the greatest index holding that term,
\* find_term returns the record at that index, and an absent term gives None.
C4_IndexConsistency ==
    term_map.is_some =>
        /\ DOMAIN term_map.val = TermsOf(words)
        /\ \A t \in Terms :
              IF t \in TermsOf(words)
              THEN /\ term_map.val[t] = LastIndexOf(words, t)
                   /\ find_term(Self, t).is_some
                   /\ find_term(Self, t) = get(Self, LastIndexOf(words, t))
              ELSE find_term(Self, t) = None

\* find_term on a store holding two different records under one term returned
\* the later one
C4_Witness ==
    /\ last.op = "find_term" /\ term_map.is_some
    /\ Len(inserted) = 2
    /\ inserted[1].term = inserted[2].term /\ inserted[1] # inserted[2]
    /\ last.term = inserted[2].term
    /\ last.res = Some(inserted[2])

\* C6: positional get. After the accepted inserts r_0 .. r_{n-1} (no clear in
\* between) get(i) is r_i for i < n and None for i >= n.
C6_PositionalGet ==
    /\ len(Self) = Len(inserted)
    /\ \A i \in 0..(MaxLen + 1) :
          get(Self, i) = IF i < Len(inserted) THEN Some(inserted[i + 1]) ELSE None
    /\ last.op = "get" =>
          last.res = IF last.pos < Len(inserted) THEN Some(inserted[last.pos + 1])
                     ELSE None

\* get(1) returned the second of two records with different data, dimension 2
C6_Witness ==
    /\ last.op = "get" /\ last.pos = 1 /\ last.res.is_some
    /\ dimension = 2 /\ Len(inserted) = 2
    /\ inserted[1].data # inserted[2].data
    /\ last.res.val = inserted[2]

\* an insert into a store constructed with dimension 0 that has accepted at
\* most this record
FirstInsertOnNew0 ==
    /\ new_dim = 0 /\ last.op = "insert" /\ Len(inserted) <= 1

\* C7 as stated: on a store created with new(0) the first insert of a record of
\* dimension d > 0 succeeds and the store's dimension becomes d.
C7_DeferredDimension ==
    (FirstInsertOnNew0 /\ dim(last.vec) > 0)
        => (last.res = "Ok" /\ dimension = dim(last.vec))

\* C7 amended: a store created with new(0) keeps dimension 0; insert accepts
\* exactly the records of dimension 0 and rejects every record of dimension
\* d > 0, so the store never holds float data.
C7_NoDeferredDimension ==
    new_dim = 0 =>
        /\ dimension = 0
        /\ vec_data = <<>>
        /\ last.op = "insert" => (last.res = "Ok" <=> dim(last.vec) = 0)

\* the first insert on new(0), of a record of dimension d > 0, was rejected
C7_Witness ==
    /\ FirstInsertOnNew0 /\ inserted = <<>>
    /\ dim(last.vec) > 0 /\ last.res = "Err"

\* the lines of a byte buffer
RECURSIVE LinesOf(_)
LinesOf(bytes) ==
    IF bytes = <<>> THEN <<>> ELSE <<read_until(bytes)>> \o LinesOf(after_line(bytes))

BadHeaderLines == {<<"2", NL>>, <<"x", SP, "1", NL>>}
BadRecordLines ==
    {<<"a", NL>>, <<"a", SP, "x", NL>>, <<"a", SP, "2", SP, "2", NL>>}

\* text input, header on: the header has fewer than two integers, or a record
\* lacks the separator, has an unparsable float or a dimension other than 1
Malformed(bytes) ==
    LET ls == LinesOf(bytes)
    IN  \/ ls[1] \in BadHeaderLines
        \/ \E i \in 2..Len(ls) : ls[i] \in BadRecordLines

\* C8: parse failures are error values. Parsing text input with a malformed
\* header or record returns Err: it does not panic and returns no store.
C8_ParseFailuresAreErr ==
    (pc = "parsed_input" /\ ~parser.binary /\ parser.parse_header /\ Malformed(reader))
        => parsed.res = "Err"

\* C9: export byte count. The count returned by export_space_filtered is the
\* number of bytes the call wrote to the writer, in text and in binary mode.
C9_ExportByteCount ==
    (pc \in {"ready", "parsed"} /\ last.op = "export")
        => (last.res = "Ok" /\ last.n = Len(exporter.writer))

\* C10: dot fails on a dimension mismatch. dot and cosine of two records of
\* different dimensions assert or fail instead of returning a value.
C10_DotFailsOnMismatch ==
    (last.op \in {"dot", "cosine"} /\ dim(last.a) # dim(last.b))
        => last.ret.res = "Panic"

\* C11: store size invariant. In every state reached by insert (accepted or
\* rejected), extend, clear, reserve, shrink_to_fit and with_termmap the float
\* buffer holds len(words) * dimension values and the dimension is the one
\* given to new.
C11_StoreSizeInvariant ==
    /\ Len(vec_data) = Len(words) * dimension
    /\ dimension = new_dim

\* a rejected insert on a store of dimension 2 that holds two records
C11_Witness ==
    /\ last.op = "insert" /\ last.res = "Err"
    /\ dimension = 2 /\ Len(words) = 2 /\ Len(vec_data) = 4

\* the first line of a buffer, read by the parser's text header parsing
HeaderOf(bytes) == parse_header(Word2VecParser, read_until(bytes))

\* C12: header field order. The header line written by export_space_filtered
\* for a store of n records of dimension d is read by the parser's text header
\* parsing as count = n and dimension = d, and a store parsed from the export
\* has dimension d.
C12_HeaderFieldOrder ==
    (pc \in {"ready", "parsed"} /\ last.op = "export") =>
        /\ HeaderOf(exporter.writer).res = "Ok"
        /\ HeaderOf(exporter.writer).count = Len(words)
        /\ HeaderOf(exporter.writer).dim = dimension
        /\ (pc = "parsed" /\ parsed.res = "Ok") => parsed.space.dimension = dimension

\* a text export of two records of dimension 1 (n # d) was parsed into a store
C12_Witness ==
    /\ pc = "parsed" /\ last.op = "export" /\ ~exporter.binary
    /\ Len(words) = 2 /\ dimension = 1
    /\ parsed.res = "Ok" /\ parsed.space.dimension = 1

\* the records of the store that a predicate accepts, in store order
Accepted(filter) == SelectSeq(iter(Self), LAMBDA v : Accept(filter, v))

\* the record lines of a text export: every record opens a new line
RecordLinesOf(bytes) == Tail(LinesOf(bytes))

\* the bytes a text export holds for one record, without its line break
RecordText(vec) == Tail(write_vector_txt(Exporter(<<>>), vec).self.writer)

\* a line without its line break
Chomp(line) ==
    IF line # <<>> /\ line[Len(line)] = NL THEN slice(line, 0, Len(line) - 1) ELSE line

\* the written record lines are the accepted records, each once, in store order
WritesAcceptedRecords(bytes, filter) ==
    /\ Len(RecordLinesOf(bytes)) = Len(Accepted(filter))
    /\ \A i \in 1..Len(Accepted(filter)) :
          Chomp(RecordLinesOf(bytes)[i]) = RecordText(Accepted(filter)[i])

\* C14: header count matches the emitted records. The count declared in the
\* header written by export_space_filtered is the number of records written
\* after it, which are the store's records the predicate accepts, each once and
\* in store order (text export, where the record lines can be counted).
C14_HeaderCountMatchesRecords ==
    (pc \in {"ready", "parsed"} /\ last.op = "export" /\ ~exporter.binary) =>
        /\ HeaderOf(exporter.writer).res = "Ok"
        /\ HeaderOf(exporter.writer).count = Len(RecordLinesOf(exporter.writer))
        /\ WritesAcceptedRecords(exporter.writer, last.filter)

\* ------------------------------------------------ calls on one Exporter
MaxWriter == 12      \* most bytes the writer holds before a further call

\* the stores handed to the exporter: new(d) extended by up to MaxLen records
Stores ==
    {extend(New(d), vs).space :
        d \in Dims, vs \in UNION {[1..k -> Vectors] : k \in 0..MaxLen}}

\* a store to export, an Exporter::new over an empty buffer
InitExport ==
    /\ \E s \in Stores : /\ vec_data = s.vec_data
                         /\ words = s.words
                         /\ dimension = s.dimension
                         /\ term_map = s.term_map
                         /\ new_dim = s.dimension
                         /\ inserted = iter(s)
    /\ last = NoCall
    /\ pc = "exporting"
    /\ exporter = Exporter(<<>>)
    /\ reader = <<>>
    /\ parser = Word2VecParser
    /\ parsed = None

\* exporter = exporter.use_binary()
ExporterUseBinary ==
    /\ pc = "exporting"
    /\ ~exporter.binary
    /\ exporter' = use_binary(exporter)
    /\ last' = [op |-> "use_binary"]
    /\ UNCHANGED <<spaceVars, new_dim, inserted, pc, reader, parser, parsed>>

\* exporter.write_header(space.len(), space.dim()), a call from within the crate
ExporterWriteHeader ==
    /\ pc = "exporting"
    /\ Len(exporter.writer) <= MaxWriter
    /\ LET r == write_header(exporter, len(Self), dimension)
       IN  /\ exporter' = r.self
           /\ last' = [op |-> "write_header", res |-> "Ok", n |-> r.n]
    /\ UNCHANGED <<spaceVars, new_dim, inserted, pc, reader, parser, parsed>>

\* exporter.export_vectors(space.iter().filter(filter))
ExporterExportVectors(filter) ==
    /\ pc = "exporting"
    /\ Len(exporter.writer) <= MaxWriter
    /\ LET r == export_vectors(exporter,
                               SelectSeq(iter(Self), LAMBDA v : Accept(filter, v)))
       IN  /\ exporter' = r.self
           /\ last' = [op |-> "export_vectors", filter |-> filter,
                       res |-> r.res, n |-> r.n]
    /\ UNCHANGED <<spaceVars, new_dim, inserted, pc, reader, parser, parsed>>

\* exporter.export_space_filtered(&space, filter): consumes the exporter
ExporterExportSpace(filter) ==
    /\ pc = "exporting"
    /\ Len(exporter.writer) <= MaxWriter
    /\ LET r == export_space_filtered(exporter, Self, filter)
       IN  /\ exporter' = r.self
           /\ last' = [op |-> "export_space_filtered", filter |-> filter,
                       res |-> r.res, n |-> r.n]
    /\ pc' = "exported"
    /\ UNCHANGED <<spaceVars, new_dim, inserted, reader, parser, parsed>>

NextExport ==
    \/ ExporterUseBinary
    \/ ExporterWriteHeader
    \/ \E filter \in Filters : ExporterExportVectors(filter)
    \/ \E filter \in Filters : ExporterExportSpace(filter)

SpecExport == InitExport /\ [][NextExport]_vars

\* the number of digits of bytes from position pos (0-based) on
RECURSIVE DigitRun(_, _)
DigitRun(bytes, pos) ==
    IF pos < Len(bytes) /\ IsDigit(bytes[pos + 1]) THEN 1 + DigitRun(bytes, pos + 1)
    ELSE 0

\* bytes open with the two fields of a header: digits, a space, digits; a
\* record opens with a line break (text) or with its term (binary)
OpensWithHeader(bytes) ==
    /\ DigitRun(bytes, 0) > 0
    /\ DigitRun(bytes, 0) < Len(bytes)
    /\ bytes[DigitRun(bytes, 0) + 1] = SP
    /\ DigitRun(bytes, DigitRun(bytes, 0) + 1) > 0

\* the writer is empty, or the exporter has written a header and the writer
\* opens with it
HeaderFirst(exp) ==
    exp.writer # <<>> => (exp.header_written /\ OpensWithHeader(exp.writer))

\* the bytes of a binary export of the accepted records, counted
BinRecordBytes(filter) ==
    Len(Accepted(filter)) * (1 + 1 + 4 * dimension)

\* bytes open with the header of the store and hold no second header: in text
\* mode no later line reads as a header, in binary mode (one-byte terms) the
\* size is that of one header line and the accepted records
OneHeaderThenRecords(bytes, bin, filter) ==
    LET h == HeaderOf(bytes)
        ls == LinesOf(bytes)
    IN  /\ h.res = "Ok"
        /\ h.count = Len(words)
        /\ h.dim = dimension
        /\ IF bin
           THEN Len(bytes) = Len(read_until(bytes)) + BinRecordBytes(filter)
           ELSE \A i \in 2..Len(ls) :
                   parse_header(Word2VecParser, ls[i]).res # "Ok"

\* C13: header-then-records call order. After every call on an Exporter the
\* writer is empty or opens with a header; export_vectors called while
\* header_written is false panics and writes nothing; export_space_filtered
\* appends one header and then the records.
C13_HeaderThenRecords ==
    [][/\ HeaderFirst(exporter')
       /\ (last'.op = "export_vectors" /\ ~exporter.header_written)
             => (last'.res = "Panic" /\ exporter' = exporter)
       /\ (last'.op = "export_space_filtered" /\ pc = "exporting")
             => (/\ last'.res = "Ok"
                 /\ OneHeaderThenRecords(
                        slice(exporter'.writer, Len(exporter.writer),
                              Len(exporter'.writer)),
                        exporter.binary, last'.filter))]_vars

\* export_vectors was called with records on an exporter that had written no
\* header: it panicked and the writer is empty
C13_Witness ==
    /\ pc = "exporting" /\ last.op = "export_vectors" /\ last.filter = "all"
    /\ Len(words) > 0
    /\ last.res = "Panic" /\ exporter.writer = <<>>

====
